---- MODULE Spec2Model ----
(***************************************************************************)
(* Pupil localisation (package location): the two-stage circular Hough     *)
(* search findBestCircle with its helpers shrink and calcCirclePoints, the *)
(* process-wide circlePoints table filled by init, and the hole filler     *)
(* fillHoles.                                                              *)
(*                                                                         *)
(* An image (gocv.Mat of 8-bit pixels) is a record [w, h, fg]: its width,  *)
(* its height and the set of <<row, col>> positions whose pixel is         *)
(* non-zero.  findBestCircle only distinguishes zero from non-zero pixels, *)
(* and fillHoles takes a binary (0/255) image, so a foreground pixel       *)
(* stands for the value 255.                                               *)
(***************************************************************************)
EXTENDS Integers, Sequences, FiniteSets, TLC

(***************************************************************************)
(* math.Cos(float64(i)*math.Pi/180.0) and math.Sin(...) for i = 0..359, as *)
(* the IEEE-754 double results truncated to six decimals (entry i+1 holds  *)
(* degree i).  The truncation keeps the side of the doubles that are not   *)
(* exact: sin 30 = 0.49999999999999994 is 499999, cos 60 =                 *)
(* 0.5000000000000001 is 500000, cos 90 = 6.1e-17 is 0.  For every radius  *)
(* -60..200, int(float64(r)*cos) computed from this table equals the       *)
(* double computation.                                                     *)
(***************************************************************************)
CosE6 ==
  <<
    1000000, 999847, 999390, 998629, 997564, 996194, 994521, 992546, 990268, 987688,
    984807, 981627, 978147, 974370, 970295, 965925, 961261, 956304, 951056, 945518,
    939692, 933580, 927183, 920504, 913545, 906307, 898794, 891006, 882947, 874619,
    866025, 857167, 848048, 838670, 829037, 819152, 809016, 798635, 788010, 777145,
    766044, 754709, 743144, 731353, 719339, 707106, 694658, 681998, 669130, 656059,
    642787, 629320, 615661, 601815, 587785, 573576, 559192, 544639, 529919, 515038,
    500000, 484809, 469471, 453990, 438371, 422618, 406736, 390731, 374606, 358367,
    342020, 325568, 309016, 292371, 275637, 258819, 241921, 224951, 207911, 190808,
    173648, 156434, 139173, 121869, 104528, 87155, 69756, 52335, 34899, 17452,
    0, -17452, -34899, -52335, -69756, -87155, -104528, -121869, -139173, -156434,
    -173648, -190808, -207911, -224951, -241921, -258819, -275637, -292371, -309016, -325568,
    -342020, -358367, -374606, -390731, -406736, -422618, -438371, -453990, -469471, -484809,
    -499999, -515038, -529919, -544639, -559192, -573576, -587785, -601815, -615661, -629320,
    -642787, -656059, -669130, -681998, -694658, -707106, -719339, -731353, -743144, -754709,
    -766044, -777145, -788010, -798635, -809016, -819152, -829037, -838670, -848048, -857167,
    -866025, -874619, -882947, -891006, -898794, -906307, -913545, -920504, -927183, -933580,
    -939692, -945518, -951056, -956304, -961261, -965925, -970295, -974370, -978147, -981627,
    -984807, -987688, -990268, -992546, -994521, -996194, -997564, -998629, -999390, -999847,
    -1000000, -999847, -999390, -998629, -997564, -996194, -994521, -992546, -990268, -987688,
    -984807, -981627, -978147, -974370, -970295, -965925, -961261, -956304, -951056, -945518,
    -939692, -933580, -927183, -920504, -913545, -906307, -898794, -891006, -882947, -874619,
    -866025, -857167, -848048, -838670, -829037, -819152, -809016, -798635, -788010, -777145,
    -766044, -754709, -743144, -731353, -719339, -707106, -694658, -681998, -669130, -656059,
    -642787, -629320, -615661, -601815, -587785, -573576, -559192, -544639, -529919, -515038,
    -500000, -484809, -469471, -453990, -438371, -422618, -406736, -390731, -374606, -358367,
    -342020, -325568, -309016, -292371, -275637, -258819, -241921, -224951, -207911, -190808,
    -173648, -156434, -139173, -121869, -104528, -87155, -69756, -52335, -34899, -17452,
    0, 17452, 34899, 52335, 69756, 87155, 104528, 121869, 139173, 156434,
    173648, 190808, 207911, 224951, 241921, 258819, 275637, 292371, 309016, 325568,
    342020, 358367, 374606, 390731, 406736, 422618, 438371, 453990, 469471, 484809,
    500000, 515038, 529919, 544639, 559192, 573576, 587785, 601815, 615661, 629320,
    642787, 656059, 669130, 681998, 694658, 707106, 719339, 731353, 743144, 754709,
    766044, 777145, 788010, 798635, 809016, 819152, 829037, 838670, 848048, 857167,
    866025, 874619, 882947, 891006, 898794, 906307, 913545, 920504, 927183, 933580,
    939692, 945518, 951056, 956304, 961261, 965925, 970295, 974370, 978147, 981627,
    984807, 987688, 990268, 992546, 994521, 996194, 997564, 998629, 999390, 999847
  >>

SinE6 ==
  <<
    0, 17452, 34899, 52335, 69756, 87155, 104528, 121869, 139173, 156434,
    173648, 190808, 207911, 224951, 241921, 258819, 275637, 292371, 309016, 325568,
    342020, 358367, 374606, 390731, 406736, 422618, 438371, 453990, 469471, 484809,
    499999, 515038, 529919, 544639, 559192, 573576, 587785, 601815, 615661, 629320,
    642787, 656059, 669130, 681998, 694658, 707106, 719339, 731353, 743144, 754709,
    766044, 777145, 788010, 798635, 809016, 819152, 829037, 838670, 848048, 857167,
    866025, 874619, 882947, 891006, 898794, 906307, 913545, 920504, 927183, 933580,
    939692, 945518, 951056, 956304, 961261, 965925, 970295, 974370, 978147, 981627,
    984807, 987688, 990268, 992546, 994521, 996194, 997564, 998629, 999390, 999847,
    1000000, 999847, 999390, 998629, 997564, 996194, 994521, 992546, 990268, 987688,
    984807, 981627, 978147, 974370, 970295, 965925, 961261, 956304, 951056, 945518,
    939692, 933580, 927183, 920504, 913545, 906307, 898794, 891006, 882947, 874619,
    866025, 857167, 848048, 838670, 829037, 819152, 809016, 798635, 788010, 777145,
    766044, 754709, 743144, 731353, 719339, 707106, 694658, 681998, 669130, 656059,
    642787, 629320, 615661, 601815, 587785, 573576, 559192, 544639, 529919, 515038,
    499999, 484809, 469471, 453990, 438371, 422618, 406736, 390731, 374606, 358367,
    342020, 325568, 309016, 292371, 275637, 258819, 241921, 224951, 207911, 190808,
    173648, 156434, 139173, 121869, 104528, 87155, 69756, 52335, 34899, 17452,
    0, -17452, -34899, -52335, -69756, -87155, -104528, -121869, -139173, -156434,
    -173648, -190808, -207911, -224951, -241921, -258819, -275637, -292371, -309016, -325568,
    -342020, -358367, -374606, -390731, -406736, -422618, -438371, -453990, -469471, -484809,
    -500000, -515038, -529919, -544639, -559192, -573576, -587785, -601815, -615661, -629320,
    -642787, -656059, -669130, -681998, -694658, -707106, -719339, -731353, -743144, -754709,
    -766044, -777145, -788010, -798635, -809016, -819152, -829037, -838670, -848048, -857167,
    -866025, -874619, -882947, -891006, -898794, -906307, -913545, -920504, -927183, -933580,
    -939692, -945518, -951056, -956304, -961261, -965925, -970295, -974370, -978147, -981627,
    -984807, -987688, -990268, -992546, -994521, -996194, -997564, -998629, -999390, -999847,
    -1000000, -999847, -999390, -998629, -997564, -996194, -994521, -992546, -990268, -987688,
    -984807, -981627, -978147, -974370, -970295, -965925, -961261, -956304, -951056, -945518,
    -939692, -933580, -927183, -920504, -913545, -906307, -898794, -891006, -882947, -874619,
    -866025, -857167, -848048, -838670, -829037, -819152, -809016, -798635, -788010, -777145,
    -766044, -754709, -743144, -731353, -719339, -707106, -694658, -681998, -669130, -656059,
    -642787, -629320, -615661, -601815, -587785, -573576, -559192, -544639, -529919, -515038,
    -500000, -484809, -469471, -453990, -438371, -422618, -406736, -390731, -374606, -358367,
    -342020, -325568, -309016, -292371, -275637, -258819, -241921, -224951, -207911, -190808,
    -173648, -156434, -139173, -121869, -104528, -87155, -69756, -52335, -34899, -17452
  >>

(***************************************************************************)
(* Bounds of the model.                                                    *)
(***************************************************************************)
\* At most this many foreground pixels in an input edge image.
MaxFg == 2
\* At most this many white pixels in an input of fillHoles.
MaxWhite == 3

(***************************************************************************)
(* Program constants.                                                      *)
(***************************************************************************)
\* shrink(im, 60)
MaxHeight == 60
\* for r := 5; r < 15; r++
RadiusFirst == 5
RadiusEnd == 15

(***************************************************************************)
(* Integer helpers.                                                        *)
(***************************************************************************)
\* Go's int(f) of a float64: truncation toward zero, here of p/d with d > 0.
TruncDiv(p, d) == IF p >= 0 THEN p \div d ELSE -((-p) \div d)

\* A value stored into an int16 (votes, winnerVotes) wraps modulo 2^16.
Int16(x) == ((x + 32768) % 65536) - 32768

\* image.Point{x, y}
Pt(x, y) == [X |-> x, Y |-> y]

\* Circle{Point{x, y}, r}
Circ(x, y, r) == [X |-> x, Y |-> y, R |-> r]

\* The zero value of Circle (var winner Circle; winner = Circle{}).
ZeroCircle == Circ(0, 0, 0)

(***************************************************************************)
(* calcCirclePoints                                                        *)
(***************************************************************************)
\* The sample of degree i: (int(r*cos i), int(r*sin i)).
circlePoint(r, i) ==
  Pt(TruncDiv(r * CosE6[i + 1], 1000000), TruncDiv(r * SinE6[i + 1], 1000000))

\* The loop of calcCirclePoints.  After the iteration of degree i, last is
\* that degree's sample (it is either assigned, or was equal already), so
\* each iteration compares its sample p with the sample of the degree
\* before, and iteration 0 with the zero Point; the samples that differ are
\* appended, in order.
calcCirclePoints(r) ==
  LET iter == [i \in 1..360 |->
                 [p    |-> circlePoint(r, i - 1),
                  last |-> IF i = 1 THEN Pt(0, 0) ELSE circlePoint(r, i - 2)]]
      kept == SelectSeq(iter, LAMBDA s : s.p # s.last)
  IN  [k \in 1..Len(kept) |-> kept[k].p]

\* func init(): the table of the radii 5..14.
initCirclePoints == [r \in RadiusFirst..(RadiusEnd - 1) |-> calcCirclePoints(r)]

(***************************************************************************)
(* Images                                                                  *)
(***************************************************************************)
Image(w, h, fg) == [w |-> w, h |-> h, fg |-> fg]

\* The (a, b) in-bounds test of the coarse pass, rows first.
InBounds(im, a, b) == a >= 0 /\ a < im.h /\ b >= 0 /\ b < im.w

\* Mat.GetUCharAt(row, col) of a position inside the image.
GetUCharAt(im, row, col) == IF <<row, col>> \in im.fg THEN 255 ELSE 0

\* gocv.Resize(ret, &ret, image.Point{}, f, f, InterpolationDefault) with
\* f = 1/k for an integer k >= 2 (a height that is a multiple of maxHeight).
\* Bilinear interpolation samples destination pixel (i, j) at source
\* position ((i+0.5)k-0.5, (j+0.5)k-0.5): the centre pixel of the k x k
\* block for odd k, the mean of the block's middle 2 x 2 pixels for even k
\* (for k = 2 the 2 x 2 block mean, (sum+2)>>2).  One 255 among the four
\* gives 64, so a destination pixel is non-zero iff a sampled pixel is.
Resize(im, k) ==
  LET lo(i) == k * i + ((k - 1) \div 2)
      hi(i) == k * i + (k \div 2)
      w == (2 * im.w + k) \div (2 * k)
      h == (2 * im.h + k) \div (2 * k)
  IN  Image(w, h,
            {c \in (0..(h - 1)) \X (0..(w - 1)) :
               \E px \in im.fg : /\ px[1] \in {lo(c[1]), hi(c[1])}
                                 /\ px[2] \in {lo(c[2]), hi(c[2])}})

\* A float64 mult is the exact fraction <<num, den>>; the model's heights
\* are at most maxHeight or multiples of it, so that sz/tgtSz and every
\* product float64(x)*mult are exact in float64.
MultIsOne(mult) == mult[1] = mult[2]

\* int(float64(x) * mult)
Scale(x, mult) == TruncDiv(x * mult[1], mult[2])

\* int(math.Ceil(mult / 2))
Uncertainty(mult) == (mult[1] + 2 * mult[2] - 1) \div (2 * mult[2])

\* Faulty variant of shrink: the smaller dimension decides whether to resize.
shrinkBySmallerSide(im, maxHeight) ==
  LET sz == IF im.w < im.h THEN im.w ELSE im.h
  IN  IF sz > maxHeight
      THEN [image |-> Resize(im, sz \div maxHeight), mult |-> <<sz, maxHeight>>]
      ELSE [image |-> im, mult |-> <<1, 1>>]

\* shrink(im, maxHeight): only the height decides whether to resize.
shrink(im, maxHeight) ==
  IF im.h > maxHeight
  THEN [image |-> Resize(im, im.h \div maxHeight), mult |-> <<im.h, maxHeight>>]
  ELSE [image |-> im, mult |-> <<1, 1>>]

(***************************************************************************)
(* Coarse pass: one radius of the voting loop                              *)
(***************************************************************************)
\* How often each offset occurs in a radius's point list (calcCirclePoints
\* only drops consecutive duplicates).
pointCount(cps) ==
  [o \in {cps[i] : i \in DOMAIN cps} |-> Cardinality({i \in DOMAIN cps : cps[i] = o})]

RECURSIVE votesFrom(_, _, _, _)
votesFrom(pixels, count, a, b) ==
  IF pixels = {} THEN 0
  ELSE LET px == CHOOSE q \in pixels : TRUE
           o  == Pt(b - px[2], a - px[1])
           n  == IF o \in DOMAIN count THEN count[o] ELSE 0
       IN  Int16(n + votesFrom(pixels \ {px}, count, a, b))

\* The voting matrix of one radius, on the cells that received a vote:
\* every foreground pixel (row, col) votes for (row+cp.Y, col+cp.X), each
\* point cp of the radius, when that cell is in bounds.
votes(small, cps) ==
  LET count == pointCount(cps)
      cells == {c \in {<<px[1] + o.Y, px[2] + o.X>> : px \in small.fg, o \in DOMAIN count} :
                  InBounds(small, c[1], c[2])}
  IN  [c \in cells |-> votesFrom(small.fg, count, c[1], c[2])]

\* The first cell of a set in the scan order: rows, then columns.
FirstCell(cells) ==
  CHOOSE c \in cells : \A d \in cells : c[1] < d[1] \/ (c[1] = d[1] /\ c[2] <= d[2])

\* The counting scan: a cell takes over when its votes are strictly
\* greater than winnerVotes, so the scan ends on the first cell that holds
\* the greatest count, if that count beats the incoming winnerVotes.
countVotes(v, r, win, winVotes) ==
  LET better == {c \in DOMAIN v : v[c] > winVotes}
  IN  IF better = {} THEN [winner |-> win, winnerVotes |-> winVotes]
      ELSE LET top  == CHOOSE m \in {v[c] : c \in better} : \A c \in better : v[c] <= m
               cell == FirstCell({c \in better : v[c] = top})
           IN  [winner |-> Circ(cell[2], cell[1], r), winnerVotes |-> top]

(***************************************************************************)
(* Fine pass: one radius of the search cube                                *)
(***************************************************************************)
\* What a read outside the image (im.GetUCharAt(a, b) is not bounds
\* checked) may yield when it does not fault: a zero or a non-zero byte.
OobValues == {0, 255}

ReadAt(im, a, b, mem) == IF InBounds(im, a, b) THEN GetUCharAt(im, a, b) ELSE mem

\* votes of candidate (row, col): the circle samples that read non-zero.
sampleVotes(im, cps, row, col, mem) ==
  Int16(Cardinality({i \in DOMAIN cps : ReadAt(im, row + cps[i].Y, col + cps[i].X, mem) # 0}))

\* Whether candidate (row, col) reads outside the image.
readsOutside(im, cps, row, col) ==
  \E i \in DOMAIN cps : ~InBounds(im, row + cps[i].Y, col + cps[i].X)

\* The (row, col) loops for one r, from candidate number k on (k counts
\* rows first, columns second, from 0), keeping the running winner.
RECURSIVE scanFrom(_, _, _, _, _, _, _, _, _)
scanFrom(im, cps, r, approx, u, mem, k, win, winVotes) ==
  LET side == 2 * u + 1
  IN  IF k >= side * side THEN [winner |-> win, winnerVotes |-> winVotes]
      ELSE LET row == approx.Y - u + (k \div side)
               col == approx.X - u + (k % side)
               n   == sampleVotes(im, cps, row, col, mem)
           IN  IF n > winVotes
               THEN scanFrom(im, cps, r, approx, u, mem, k + 1, Circ(col, row, r), n)
               ELSE scanFrom(im, cps, r, approx, u, mem, k + 1, win, winVotes)

\* Whether some candidate of the (row, col) loops reads outside the image.
sliceReadsOutside(im, cps, approx, u) ==
  \E row \in (approx.Y - u)..(approx.Y + u), col \in (approx.X - u)..(approx.X + u) :
     readsOutside(im, cps, row, col)

\* The condition of the r loop: r < approximate.R + uncertainty.
inRadiusRange(r, approx, u) == r < approx.R + u

(***************************************************************************)
(* fillHoles                                                               *)
(***************************************************************************)
Cells(im) == (0..(im.h - 1)) \X (0..(im.w - 1))

\* ret.SetUCharAt(.., 255) along the first and last row and column.
Border(im) ==
  {c \in Cells(im) : c[1] = 0 \/ c[1] = im.h - 1 \/ c[2] = 0 \/ c[2] = im.w - 1}

\* Faulty variant of withBorder: only the first loop (the two columns) runs.
withSideBorder(im) ==
  Image(im.w, im.h, im.fg \cup {c \in Cells(im) : c[2] = 0 \/ c[2] = im.w - 1})

withBorder(im) == Image(im.w, im.h, im.fg \cup Border(im))

\* Two pixels that share an edge (cv::floodFill's default 4-connectivity).
Adjacent(p, q) ==
  \/ p[1] = q[1] /\ (p[2] = q[2] + 1 \/ q[2] = p[2] + 1)
  \/ p[2] = q[2] /\ (p[1] = q[1] + 1 \/ q[1] = p[1] + 1)

RECURSIVE grow(_, _)
grow(region, same) ==
  LET next == region \cup {q \in same : \E p \in region : Adjacent(p, q)}
  IN  IF next = region THEN region ELSE grow(next, same)

\* gocv.FloodFill(&ret, seed, black): the pixels connected to the seed
\* through pixels of the seed's value become 0.
FloodFill(im, seed) ==
  IF seed \notin Cells(im) THEN im
  ELSE IF seed \in im.fg
       THEN Image(im.w, im.h, im.fg \ grow({seed}, im.fg))
       ELSE im

\* gocv.BitwiseNot on a 0/255 image.
BitwiseNot(im) == Image(im.w, im.h, Cells(im) \ im.fg)

\* gocv.BitwiseAnd on 0/255 images.
BitwiseAnd(a, b) == Image(a.w, a.h, a.fg \cap b.fg)

fillHoles(s) == BitwiseAnd(s, BitwiseNot(FloodFill(withBorder(s), <<0, 0>>)))

(***************************************************************************)
(* Inputs of the model                                                     *)
(***************************************************************************)
\* The calls of FindPupil / findBestCircle the process makes.
Runs == {1, 2}

\* <<width, height>> of the input edge images: not resized (height <= 60),
\* halved, halved and narrower than the cap, reduced to a third.
Sizes == {<<40, 40>>, <<120, 120>>, <<40, 120>>, <<180, 180>>}

\* The <<row, col>> positions an input may have in the foreground.
Pixels == {<<1, 1>>, <<7, 16>>, <<22, 10>>, <<25, 19>>}

\* The subsets of S with at most n elements.
RECURSIVE SubsetsUpTo(_, _)
SubsetsUpTo(S, n) ==
  IF n = 0 THEN {{}}
  ELSE LET less == SubsetsUpTo(S, n - 1)
       IN  less \cup {s \cup {x} : s \in less, x \in S}

Inputs == {Image(s[1], s[2], fg) : s \in Sizes, fg \in SubsetsUpTo(Pixels, MaxFg)}

\* The inputs of two concurrent runs: the first run's, the second run's.
ConcInputs ==
  <<{Image(40, 40, {<<7, 16>>})},
    {Image(40, 40, {<<7, 16>>}), Image(120, 120, {<<22, 10>>, <<25, 19>>})}>>

\* The binary images fillHoles is applied to: 6 rows, 5 columns.
FillInputs == {Image(5, 6, f) : f \in SubsetsUpTo((0..5) \X (0..4), MaxWhite)}

RECURSIVE Ascending(_)
Ascending(S) ==
  IF S = {} THEN <<>>
  ELSE LET m == CHOOSE x \in S : \A y \in S : x <= y
       IN  <<m>> \o Ascending(S \ {m})

Reverse(s) == [i \in 1..Len(s) |-> s[Len(s) + 1 - i]]

\* The sequence s started k places later, wrapping around.
Rotate(s, k) == [i \in 1..Len(s) |-> s[((i + k - 1) % Len(s)) + 1]]

\* `range circlePoints`: Go leaves the order in which a map is visited
\* unspecified and varies it from one range statement to the next (the
\* runtime starts at a random place and wraps around).  The model draws
\* the order, when the loop starts, from the ascending and the descending
\* order of the keys and from each of them started half way.
Orders(keys) ==
  LET up   == Ascending(keys)
      down == Reverse(up)
      half == Cardinality(keys) \div 2
  IN  {up, down, Rotate(up, half), Rotate(down, half)}

(***************************************************************************)
(* State                                                                   *)
(***************************************************************************)
VARIABLES
  circlePoints,   \* the package-level table, shared by all runs
  pc,             \* per run: where findBestCircle stands
  im,             \* per run: the full-resolution edge image
  small,          \* per run: the shrunken image
  mult,           \* per run: the factor back to the original
  order,          \* per run: the order of this run's range over circlePoints
  pos,            \* per run: how many radii of the range are done
  winner,         \* per run: the best circle so far
  winnerVotes,    \* per run: its votes
  approximate,    \* per run: the coarse winner scaled by mult
  r,              \* per run: the radius of the fine pass's r loop
  result,         \* per run: the returned <<approximate, refined>>
  oobRead,        \* per run: a pixel outside im has been read
  src,            \* fillHoles: the input image
  ret,            \* fillHoles: the working clone
  stage           \* fillHoles: the statement reached

searchVars ==
  <<pc, im, small, mult, order, pos, winner, winnerVotes, approximate, r, result, oobRead>>
fillVars == <<src, ret, stage>>
vars == <<circlePoints, searchVars, fillVars>>

NoImage == Image(0, 0, {})

\* Runs 1..n called with the given images, the others never called.
SearchInit(images) ==
  /\ circlePoints = initCirclePoints
  /\ pc = [p \in Runs |-> IF p \in DOMAIN images THEN "start" ELSE "idle"]
  /\ im = [p \in Runs |-> IF p \in DOMAIN images THEN images[p] ELSE NoImage]
  /\ small = [p \in Runs |-> NoImage]
  /\ mult = [p \in Runs |-> <<1, 1>>]
  /\ order = [p \in Runs |-> <<>>]
  /\ pos = [p \in Runs |-> 0]
  /\ winner = [p \in Runs |-> ZeroCircle]
  /\ winnerVotes = [p \in Runs |-> 0]
  /\ approximate = [p \in Runs |-> ZeroCircle]
  /\ r = [p \in Runs |-> 0]
  /\ result = [p \in Runs |-> <<ZeroCircle, ZeroCircle>>]
  /\ oobRead = [p \in Runs |-> FALSE]

FillIdle == src = NoImage /\ ret = NoImage /\ stage = "idle"

\* One call of findBestCircle.
Init == (\E i \in Inputs : SearchInit(<<i>>)) /\ FillIdle

\* Two concurrent calls.
InitConc == (\E i \in ConcInputs[1], j \in ConcInputs[2] : SearchInit(<<i, j>>)) /\ FillIdle

\* One call of fillHoles.
InitFill == SearchInit(<<>>) /\ (\E s \in FillInputs : src = s /\ ret = NoImage /\ stage = "clone")

(***************************************************************************)
(* findBestCircle                                                          *)
(***************************************************************************)
\* small, mult := shrink(im, 60); var winner, winnerVotes; the range over
\* circlePoints starts.
Shrink(p) ==
  /\ pc[p] = "start"
  /\ LET s == shrink(im[p], MaxHeight)
     IN  /\ small' = [small EXCEPT ![p] = s.image]
         /\ mult' = [mult EXCEPT ![p] = s.mult]
  /\ winner' = [winner EXCEPT ![p] = ZeroCircle]
  /\ winnerVotes' = [winnerVotes EXCEPT ![p] = 0]
  /\ \E o \in Orders(DOMAIN circlePoints) : order' = [order EXCEPT ![p] = o]
  /\ pos' = [pos EXCEPT ![p] = 0]
  /\ pc' = [pc EXCEPT ![p] = "coarse"]
  /\ UNCHANGED <<circlePoints, im, approximate, r, result, oobRead, fillVars>>

\* One iteration of `for r, circlePoints := range circlePoints`: the voting
\* matrix of radius r, then the count.
CoarseRadius(p) ==
  /\ pc[p] = "coarse"
  /\ pos[p] < Len(order[p])
  /\ LET rad == order[p][pos[p] + 1]
         w   == countVotes(votes(small[p], circlePoints[rad]), rad, winner[p], winnerVotes[p])
     IN  /\ winner' = [winner EXCEPT ![p] = w.winner]
         /\ winnerVotes' = [winnerVotes EXCEPT ![p] = w.winnerVotes]
  /\ pos' = [pos EXCEPT ![p] = @ + 1]
  /\ UNCHANGED <<circlePoints, pc, im, small, mult, order, approximate, r, result, oobRead, fillVars>>

\* Faulty variant of Refines: the early return is missing.
RefinesAlways(m) == TRUE

\* Whether the fine pass runs: `if mult == 1 { return approximate, approximate }`.
Refines(m) == ~MultIsOne(m)

\* After the range: approximate, the early return, or the start of the fine
\* pass (winner = Circle{}, winnerVotes = 0, r := approximate.R - uncertainty).
Approximate(p) ==
  /\ pc[p] = "coarse"
  /\ pos[p] >= Len(order[p])
  /\ LET a == Circ(Scale(winner[p].X, mult[p]), Scale(winner[p].Y, mult[p]),
                   Scale(winner[p].R, mult[p]))
     IN  /\ approximate' = [approximate EXCEPT ![p] = a]
         /\ IF Refines(mult[p])
            THEN /\ winner' = [winner EXCEPT ![p] = ZeroCircle]
                 /\ winnerVotes' = [winnerVotes EXCEPT ![p] = 0]
                 /\ r' = [r EXCEPT ![p] = a.R - Uncertainty(mult[p])]
                 /\ pc' = [pc EXCEPT ![p] = "fine"]
                 /\ UNCHANGED result
            ELSE /\ result' = [result EXCEPT ![p] = <<a, a>>]
                 /\ pc' = [pc EXCEPT ![p] = "done"]
                 /\ UNCHANGED <<winner, winnerVotes, r>>
  /\ UNCHANGED <<circlePoints, im, small, mult, order, pos, oobRead, fillVars>>

\* Faulty variant of FineRadius: the points of r are stored into the package-level
\* table (circlePoints[r] = calcCirclePoints(r)) instead of a local.
FineRadiusCaching(p) ==
  /\ pc[p] = "fine"
  /\ r[p] < approximate[p].R + Uncertainty(mult[p])
  /\ circlePoints' = [k \in DOMAIN circlePoints \cup {r[p]} |-> calcCirclePoints(k)]
  /\ r' = [r EXCEPT ![p] = @ + 1]
  /\ UNCHANGED <<pc, im, small, mult, order, pos, winner, winnerVotes, approximate,
                 result, oobRead, fillVars>>

\* One iteration of the fine pass's r loop that does not fault: the points
\* of r are computed into a local, every (row, col) of the square is
\* counted.  A read outside the image yields mem.
FineRadius(p) ==
  /\ pc[p] = "fine"
  /\ inRadiusRange(r[p], approximate[p], Uncertainty(mult[p]))
  /\ LET u   == Uncertainty(mult[p])
         cps == calcCirclePoints(r[p])
         out == sliceReadsOutside(im[p], cps, approximate[p], u)
     IN  /\ \E mem \in OobValues :
               LET w == scanFrom(im[p], cps, r[p], approximate[p], u, mem, 0,
                                 winner[p], winnerVotes[p])
               IN  /\ winner' = [winner EXCEPT ![p] = w.winner]
                   /\ winnerVotes' = [winnerVotes EXCEPT ![p] = w.winnerVotes]
         /\ oobRead' = [oobRead EXCEPT ![p] = @ \/ out]
  /\ r' = [r EXCEPT ![p] = @ + 1]
  /\ UNCHANGED <<circlePoints, pc, im, small, mult, order, pos, approximate, result, fillVars>>

\* An iteration of the r loop whose read outside the image faults.
FineFault(p) ==
  /\ pc[p] = "fine"
  /\ inRadiusRange(r[p], approximate[p], Uncertainty(mult[p]))
  /\ sliceReadsOutside(im[p], calcCirclePoints(r[p]), approximate[p], Uncertainty(mult[p])) = TRUE
  /\ oobRead' = [oobRead EXCEPT ![p] = TRUE]
  /\ pc' = [pc EXCEPT ![p] = "fault"]
  /\ UNCHANGED <<circlePoints, im, small, mult, order, pos, winner, winnerVotes,
                 approximate, r, result, fillVars>>

\* return approximate, winner
Return(p) ==
  /\ pc[p] = "fine"
  /\ ~inRadiusRange(r[p], approximate[p], Uncertainty(mult[p]))
  /\ result' = [result EXCEPT ![p] = <<approximate[p], winner[p]>>]
  /\ pc' = [pc EXCEPT ![p] = "done"]
  /\ UNCHANGED <<circlePoints, im, small, mult, order, pos, winner, winnerVotes,
                 approximate, r, oobRead, fillVars>>

Next ==
  \E p \in Runs :
     \/ Shrink(p)
     \/ CoarseRadius(p)
     \/ Approximate(p)
     \/ FineRadius(p)
     \/ FineFault(p)
     \/ Return(p)

Spec == Init /\ [][Next]_vars

SpecConc == InitConc /\ [][Next]_vars

(***************************************************************************)
(* fillHoles, statement by statement                                       *)
(***************************************************************************)
\* ret := src.Clone(), then the white border.
FillClone ==
  /\ stage = "clone"
  /\ ret' = withBorder(src)
  /\ stage' = "flood"
  /\ UNCHANGED <<src, circlePoints, searchVars>>

FillFlood ==
  /\ stage = "flood"
  /\ ret' = FloodFill(ret, <<0, 0>>)
  /\ stage' = "not"
  /\ UNCHANGED <<src, circlePoints, searchVars>>

FillNot ==
  /\ stage = "not"
  /\ ret' = BitwiseNot(ret)
  /\ stage' = "and"
  /\ UNCHANGED <<src, circlePoints, searchVars>>

FillAnd ==
  /\ stage = "and"
  /\ ret' = BitwiseAnd(src, ret)
  /\ stage' = "done"
  /\ UNCHANGED <<src, circlePoints, searchVars>>

NextFill == FillClone \/ FillFlood \/ FillNot \/ FillAnd

SpecFill == InitFill /\ [][NextFill]_vars


(***************************************************************************)
(* Properties                                                              *)
(***************************************************************************)
Min(a, b) == IF a < b THEN a ELSE b

Active(p) == pc[p] \notin {"idle", "start"}

\* C6 witness: a run on an image that was not resized has returned a
\* circle that received votes.
C6_Witness ==
  \E p \in Runs : pc[p] = "done" /\ MultIsOne(mult[p]) /\ winnerVotes[p] > 0

\* C6: whenever shrink returned mult == 1, the fine pass is never entered,
\* and findBestCircle returns approximate == refined, both the coarse-pass
\* winner.
C6_ScaleInvariance ==
  \A p \in Runs :
     (Active(p) /\ MultIsOne(mult[p])) =>
        /\ pc[p] \in {"coarse", "done"}
        /\ ~oobRead[p]
        /\ pc[p] = "done" => result[p] = <<winner[p], winner[p]>>

\* C10 witness: an image narrower than the cap and higher than it has been
\* shrunk.
C10_Witness ==
  \E p \in Runs : Active(p) /\ im[p].w <= MaxHeight /\ im[p].h > MaxHeight /\ ~MultIsOne(mult[p])

\* C10 as stated: the shrunken image's smaller dimension is at most 60, and
\* mult == 1 with the image unscaled whenever min(W, H) <= 60.
C10_Original ==
  \A p \in Runs :
     Active(p) =>
        /\ Min(small[p].w, small[p].h) <= MaxHeight
        /\ Min(im[p].w, im[p].h) <= MaxHeight => (MultIsOne(mult[p]) /\ small[p] = im[p])

\* C10 amended: the shrunken image's height, and so its smaller dimension,
\* is at most 60; mult == 1 with the image unscaled exactly when H <= 60,
\* whatever the width; otherwise the image is resized to height 60 and
\* mult = H/60, the factor that maps its rows back to the original's.
C10_ShrinkByHeight ==
  \A p \in Runs :
     Active(p) =>
        /\ small[p].h <= MaxHeight
        /\ Min(small[p].w, small[p].h) <= MaxHeight
        /\ im[p].h <= MaxHeight => (MultIsOne(mult[p]) /\ small[p] = im[p])
        /\ im[p].h > MaxHeight =>
              /\ ~MultIsOne(mult[p])
              /\ mult[p] = <<im[p].h, MaxHeight>>
              /\ small[p].h = MaxHeight
              /\ Scale(small[p].h, mult[p]) = im[p].h

\* C8 witness: two runs on separate images are interleaved, one inside the
\* fine pass's r loop while the other is inside the coarse pass's range.
C8_Witness ==
  \E p \in Runs, q \in Runs :
     /\ im[p] # im[q]
     /\ pc[p] = "fine" /\ r[p] > approximate[p].R - Uncertainty(mult[p])
     /\ pc[q] = "coarse" /\ pos[q] > 0 /\ pos[q] < Len(order[q])

\* C8: the table init filled, with exactly the radii 5..14, is the table in
\* every state of every interleaving of concurrent runs: no step of the
\* coarse pass or of the fine pass adds, removes or changes an entry.
C8_TableReadOnly ==
  /\ DOMAIN circlePoints = RadiusFirst..(RadiusEnd - 1)
  /\ circlePoints = initCirclePoints

\* C1: any two runs of findBestCircle on the same edge image return the
\* same (approximate, refined) pair, whatever the order in which each visits
\* the radii of circlePoints.
C1_Deterministic ==
  \A p \in Runs, q \in Runs :
     (pc[p] = "done" /\ pc[q] = "done" /\ im[p] = im[q]) => result[p] = result[q]

\* C4: the fine pass never reads a pixel outside the full-resolution image
\* and never faults; a sample outside it counts as background.
C4_NoOutOfRangeRead ==
  \A p \in Runs : ~oobRead[p] /\ pc[p] # "fault"

\* C5: on an edge image without any foreground pixel, of any size,
\* findBestCircle ends without a fault and returns the zero circle with zero
\* votes as the approximate and as the refined result.
C5_DegenerateZero ==
  \A p \in Runs :
     (im[p].fg = {} /\ pc[p] \in {"done", "fault"}) =>
        /\ pc[p] = "done"
        /\ result[p] = <<ZeroCircle, ZeroCircle>>
        /\ winnerVotes[p] = 0

\* The foreground pixels of im on the circumference of circle c: the
\* offsets calcCirclePoints(c.R) around (c.X, c.Y) that fall on a
\* foreground pixel of the image.
Fit(image, c) ==
  LET cps == calcCirclePoints(c.R)
  IN  Cardinality({i \in DOMAIN cps :
                     /\ InBounds(image, c.Y + cps[i].Y, c.X + cps[i].X)
                     /\ <<c.Y + cps[i].Y, c.X + cps[i].X>> \in image.fg})

\* C2: for an edge image with foreground and mult != 1, the refined circle
\* has at least as many foreground pixels on its circumference as the
\* approximate circle.
C2_RefinementNotWorse ==
  \A p \in Runs :
     (pc[p] = "done" /\ ~MultIsOne(mult[p]) /\ im[p].fg # {}) =>
        Fit(im[p], result[p][2]) >= Fit(im[p], result[p][1])

InImage(image, c) == c.X >= 0 /\ c.X < image.w /\ c.Y >= 0 /\ c.Y < image.h

\* C3: both returned circles have their centre inside the image, and R > 0
\* whenever the winning vote count is greater than 0.
C3_ResultInBounds ==
  \A p \in Runs :
     pc[p] = "done" =>
        /\ InImage(im[p], result[p][1])
        /\ InImage(im[p], result[p][2])
        /\ winnerVotes[p] > 0 => (result[p][1].R > 0 /\ result[p][2].R > 0)

\* The search the claim C9 describes: every r of approximate.R-u ..
\* approximate.R+u, both ends included, each with the (row, col) square, a
\* sample outside the image being background.
RECURSIVE C9_CubeFrom(_, _, _, _, _, _)
C9_CubeFrom(image, approx, u, rad, win, winVotes) ==
  IF rad > approx.R + u THEN win
  ELSE LET w == scanFrom(image, calcCirclePoints(rad), rad, approx, u, 0, 0, win, winVotes)
       IN  C9_CubeFrom(image, approx, u, rad + 1, w.winner, w.winnerVotes)

\* C9: when mult != 1 the refined circle is the best candidate, the first
\* in iteration order on a tie, of the cube of all (x, y, r) within
\* u = ceil(mult/2) of the approximate circle, both ends included on the
\* three axes.  (Stated of the runs that read no pixel outside the image.)
C9_InclusiveCube ==
  \A p \in Runs :
     (pc[p] = "done" /\ ~MultIsOne(mult[p]) /\ ~oobRead[p]) =>
        result[p][2] =
           C9_CubeFrom(im[p], approximate[p], Uncertainty(mult[p]),
                       approximate[p].R - Uncertainty(mult[p]), ZeroCircle, 0)

\* Two pixels one step apart along a row or a column.
C7_Touch(p, q) ==
  LET dr == IF p[1] > q[1] THEN p[1] - q[1] ELSE q[1] - p[1]
      dc == IF p[2] > q[2] THEN p[2] - q[2] ELSE q[2] - p[2]
  IN  dr + dc = 1

\* The pixels of white that a path of white pixels joins to a pixel of from.
RECURSIVE C7_Reach(_, _)
C7_Reach(from, white) ==
  LET more == {q \in white \ from : \E p \in from : C7_Touch(p, q)}
  IN  IF more = {} THEN from ELSE C7_Reach(from \cup more, white)

\* The white pixels of s joined to the border ring, all of it taken as
\* white, by a path of white pixels.
C7_Kept(s) == s.fg \cap C7_Reach(Border(s), s.fg \cup Border(s))

\* C7 witness: fillHoles has ended on an image with an enclosed white blob,
\* which it turned black, and with a white pixel it kept.
C7_Witness ==
  stage = "done" /\ ret.fg # {} /\ ret.fg # src.fg

\* C7: fillHoles never modifies its input; its result keeps exactly the
\* white pixels of the input that a path of white pixels joins to the border
\* ring; and applying fillHoles to the result gives the result again.
C7_FillIdempotent ==
  /\ [][src' = src]_vars
  /\ [](stage = "done" =>
          /\ ret = Image(src.w, src.h, C7_Kept(src))
          /\ fillHoles(ret) = ret
          /\ fillHoles(fillHoles(src)) = fillHoles(src))
====
